---- MODULE Spec2Model ----
(***************************************************************************)
(* Model of src/1_foundations/app.py: the history normalizer, the request  *)
(* builder and orchestrator (chat) and the response extractor.             *)
(*                                                                         *)
(* Python values are records [t, v]: t is the Python type ("none", "str",  *)
(* "int") and v the text of the value as a sequence of tokens, so that a   *)
(* string is a token sequence, "" is <<>>, concatenation is \o and         *)
(* "begins with" is a test of the first token.                             *)
(***************************************************************************)
EXTENDS Naturals, Integers, Sequences, FiniteSets, TLC

VARIABLES system_prompt, pc, message, history, normalized, full_history,
          response, answer, result

vars == <<system_prompt, pc, message, history, normalized, full_history,
          response, answer, result>>

\* ---------------------------------------------------------------- bounds
\* Longest raw history handed to normalize_history on its own.
MaxHist == 2
\* Longest raw history handed to chat.
MaxChatHist == 2
\* Longest parts list of a provider response.
MaxParts == 2

\* ------------------------------------------------------- Python values
None == [t |-> "none", v |-> <<>>]
S(s) == [t |-> "str", v |-> s]
I(d) == [t |-> "int", v |-> d]
EmptyStr == S(<<>>)

\* bool(x): None, "" and 0 are falsy.
Truthy(x) ==
  CASE x.t = "none" -> FALSE
    [] x.t = "str" -> x.v # <<>>
    [] x.t = "int" -> x.v # <<"0">>

\* str(x), as text: str(None) is "None", str(5) is "5", str(s) is s.
str(x) == IF x.t = "none" THEN <<"None">> ELSE x.v

\* The pattern  "" if x is None else str(x)  of normalize_history.
StrOrEmpty(x) == IF x.t = "none" THEN <<>> ELSE str(x)

\* a or b
Or(a, b) == IF Truthy(a) THEN a ELSE b

\* s.strip() == ""
Whitespace == {" ", "\n"}
StripIsEmpty(s) == \A i \in 1..Len(s) : s[i] \in Whitespace

\* ------------------------------------------------- raw history entries
\* An entry is [k, keys, vals]: a list/tuple (k = "seq", its elements in
\* vals), a dict (k = "dict", keys and vals in insertion order) or any other
\* object (k = "other", the object in vals[1]).
SeqItem(vs) == [k |-> "seq", keys |-> <<>>, vals |-> vs]
DictItem(ks, vs) == [k |-> "dict", keys |-> ks, vals |-> vs]
OtherItem(x) == [k |-> "other", keys |-> <<>>, vals |-> <<x>>]

\* key in item
HasKey(item, key) == \E i \in 1..Len(item.keys) : item.keys[i] = key
\* item.get(key)
Get(item, key) ==
  IF HasKey(item, key)
  THEN item.vals[CHOOSE i \in 1..Len(item.keys) : item.keys[i] = key]
  ELSE None

\* A turn is the tuple (user_msg, model_msg).
Turn(u, m) == <<u, m>>

\* lines 150-155
NormSeq_SecondFromLast(item) ==
  IF Len(item.vals) >= 2
  THEN Turn(StrOrEmpty(item.vals[1]), StrOrEmpty(item.vals[Len(item.vals)]))
  ELSE IF Len(item.vals) = 1 THEN Turn(StrOrEmpty(item.vals[1]), <<>>)
  ELSE Turn(<<>>, <<>>)

NormSeq(item) ==
  IF Len(item.vals) >= 2
  THEN Turn(StrOrEmpty(item.vals[1]), StrOrEmpty(item.vals[2]))
  ELSE IF Len(item.vals) = 1 THEN Turn(StrOrEmpty(item.vals[1]), <<>>)
  ELSE Turn(<<>>, <<>>)

\* lines 168-172
NormRoleContent_ElseAssistant(item) ==
  IF Get(item, "role") = S(<<"user">>)
  THEN Turn(StrOrEmpty(Get(item, "content")), <<>>)
  ELSE Turn(<<>>, StrOrEmpty(Get(item, "content")))

NormRoleContent(item) ==
  IF Get(item, "role") = S(<<"user">>)
  THEN Turn(StrOrEmpty(Get(item, "content")), <<>>)
  ELSE IF Get(item, "role") \in {S(<<"assistant">>), S(<<"model">>)}
  THEN Turn(<<>>, StrOrEmpty(Get(item, "content")))
  ELSE Turn(<<>>, <<>>)

\* lines 173-180: vals = list(item.values())
NormDictValues(item) ==
  IF Len(item.vals) >= 2
  THEN Turn(StrOrEmpty(item.vals[1]), StrOrEmpty(item.vals[2]))
  ELSE IF Len(item.vals) = 1 THEN Turn(StrOrEmpty(item.vals[1]), <<>>)
  ELSE Turn(<<>>, <<>>)

\* lines 158-180
NormDict(item) ==
  IF HasKey(item, "user") /\ HasKey(item, "assistant")
  THEN Turn(StrOrEmpty(Get(item, "user")), StrOrEmpty(Get(item, "assistant")))
  ELSE IF HasKey(item, "sender") /\ HasKey(item, "message")
  THEN IF Get(item, "sender") = S(<<"user">>)
       THEN Turn(StrOrEmpty(Get(item, "message")), <<>>)
       ELSE Turn(<<>>, StrOrEmpty(Get(item, "message")))
  ELSE IF HasKey(item, "role") /\ HasKey(item, "content")
  THEN NormRoleContent(item)
  ELSE NormDictValues(item)

\* lines 146-186, the body of the loop for one item
NormItem(item) ==
  CASE item.k = "seq" -> NormSeq(item)
    [] item.k = "dict" -> NormDict(item)
    [] OTHER -> Turn(str(item.vals[1]), <<>>)

\* A raw history is [k, items]: None (k = "none"), a falsy object that is
\* not a list, such as 0 (k = "falsy"), a truthy object that cannot be
\* iterated, such as 42 (k = "int"), or a list of entries (k = "list").
NoHistory == [k |-> "none", items |-> <<>>]
FalsyHistory == [k |-> "falsy", items |-> <<>>]
IntHistory == [k |-> "int", items |-> <<>>]
ListHistory(es) == [k |-> "list", items |-> es]

\* The outcome of a call: the value returned, or the exception raised.
Returned(x) == [raised |-> FALSE, value |-> x, exc |-> <<>>]
Raised(e) == [raised |-> TRUE, value |-> None, exc |-> e]

\* lines 134-187.  `raw_history or []` maps None and every falsy object to
\* the empty list; iterating a truthy object that is not iterable raises
\* TypeError.
normalize_history(raw_history) ==
  CASE raw_history.k \in {"none", "falsy"} -> Returned(<<>>)
    [] raw_history.k = "int" -> Raised(<<"'int' object is not iterable">>)
    [] OTHER ->
         Returned([i \in 1..Len(raw_history.items) |-> NormItem(raw_history.items[i])])

\* --------------------------------------------------- provider responses
\* A part is a dict or an object with the fields text and content; an
\* absent field reads as None through p.get(...) and getattr(p, ..., None).
Part(d, tx, ct) == [dict |-> d, text |-> tx, content |-> ct]

\* A parts or candidates attribute is [k, items]: absent or None
\* (k = "none"), a list (k = "list") or a truthy object that is neither
\* iterable nor subscriptable, such as 5 (k = "int").
NoList == [k |-> "none", items |-> <<>>]
IntList == [k |-> "int", items |-> <<>>]
List(xs) == [k |-> "list", items |-> xs]
TruthyList(l) == l.k = "int" \/ (l.k = "list" /\ l.items # <<>>)

\* A candidate has the attributes text and parts of its own, the attribute
\* content (k = "none": absent or None; k = "obj": an object with text and
\* parts) and a string form repr.
NoContent == [k |-> "none", text |-> None, parts |-> NoList]
Content(tx, ps) == [k |-> "obj", text |-> tx, parts |-> ps]
Candidate(ct, tx, ps, rp) == [content |-> ct, text |-> tx, parts |-> ps, repr |-> rp]
Response(cs, rp) == [candidates |-> cs, repr |-> rp]

\* line 105: content = getattr(cand, "content", None) or cand
ContentView(cand) ==
  IF cand.content.k = "obj"
  THEN [text |-> cand.content.text, parts |-> cand.content.parts]
  ELSE [text |-> cand.text, parts |-> cand.parts]

\* lines 117-120: t = p.get("text") or p.get("content") or ""
PartText_ContentFirst(p) == Or(Or(p.content, p.text), EmptyStr)

PartText(p) ==
  IF p.dict
  THEN Or(Or(p.text, p.content), EmptyStr)
  ELSE Or(Or(p.text, p.content), EmptyStr)

\* lines 115-122: the loop over parts from part i on, assembled so far in
\* acc.  `assembled += t` raises TypeError when t is truthy and no string.
RECURSIVE Assemble(_, _, _)
Assemble(parts, i, acc) ==
  IF i > Len(parts) THEN Returned(S(acc))
  ELSE LET t == PartText(parts[i]) IN
       IF ~Truthy(t) THEN Assemble(parts, i + 1, acc)
       ELSE IF t.t = "str" THEN Assemble(parts, i + 1, acc \o t.v)
       ELSE Raised(<<"can only concatenate str (not \"int\") to str">>)

\* lines 113-127, after the flat text was found empty
ExtractParts(cand, content) ==
  IF ~TruthyList(content.parts) THEN Returned(S(cand.repr))
  ELSE IF content.parts.k = "int" THEN Raised(<<"'int' object is not iterable">>)
  ELSE LET a == Assemble(content.parts.items, 1, <<>>) IN
       IF a.raised THEN a
       ELSE IF Truthy(a.value) THEN a
       ELSE Returned(S(cand.repr))

\* lines 101-127, the body of the try
ExtractBody(response_obj) ==
  IF ~TruthyList(response_obj.candidates) THEN Returned(S(response_obj.repr))
  ELSE IF response_obj.candidates.k = "int"
  THEN Raised(<<"'int' object is not subscriptable">>)
  ELSE LET cand == response_obj.candidates.items[1]
           content == ContentView(cand)
       IN IF Truthy(content.text) THEN Returned(content.text)
          ELSE ExtractParts(cand, content)

\* lines 95-130
extract_text_from_response_NoExcept(response_obj) == ExtractBody(response_obj)

extract_text_from_response(response_obj) ==
  LET r == ExtractBody(response_obj) IN
  IF r.raised
  THEN Returned(S(<<"[Could not extract text from response: ">> \o r.exc \o <<"]">>))
  ELSE r

\* ------------------------------------------------------------ chat
\* lines 79-91: the template around the two documents read at start-up.
SystemPrompt(summary, linkedin) ==
  <<"[SYSTEM INSTRUCTION - for the assistant to follow] ... ## Summary: ">>
    \o summary \o <<" ## LinkedIn Profile: ">> \o linkedin

\* {"role": role, "parts": [{"text": text}]}
Message(role, text) == [role |-> role, parts |-> <<[text |-> text]>>]

\* lines 201-204, for one normalized turn
TurnMessages_Unconditional(turn) ==
  <<Message("user", turn[1]), Message("model", turn[2])>>

TurnMessages_ModelFirst(turn) ==
  (IF turn[2] # <<>> THEN <<Message("model", turn[2])>> ELSE <<>>)
    \o (IF turn[1] # <<>> THEN <<Message("user", turn[1])>> ELSE <<>>)

TurnMessages(turn) ==
  (IF turn[1] # <<>> THEN <<Message("user", turn[1])>> ELSE <<>>)
    \o (IF turn[2] # <<>> THEN <<Message("model", turn[2])>> ELSE <<>>)

\* lines 200-204: the loop over the normalized turns
RECURSIVE HistoryMessages(_)
HistoryMessages(turns) ==
  IF turns = <<>> THEN <<>>
  ELSE TurnMessages(Head(turns)) \o HistoryMessages(Tail(turns))

\* lines 197-207
BuildRequest_SkipEmptyMessage(prompt, turns, msg) ==
  <<Message("user", prompt)>> \o HistoryMessages(turns)
    \o (IF msg # <<>> THEN <<Message("user", msg)>> ELSE <<>>)

BuildRequest(prompt, turns, msg) ==
  <<Message("user", prompt)>> \o HistoryMessages(turns) \o <<Message("user", msg)>>

\* lines 214-217: the rest of the try once the provider has answered.  A
\* truthy answer that is no string has no strip(): AttributeError.
AfterResponse(response_obj) ==
  LET a == extract_text_from_response(response_obj) IN
  IF a.raised THEN a
  ELSE IF ~Truthy(a.value)
  THEN Returned(S(<<"(no text extracted) ">> \o response_obj.repr))
  ELSE IF a.value.t # "str"
  THEN Raised(<<"'int' object has no attribute 'strip'">>)
  ELSE IF StripIsEmpty(a.value.v)
  THEN Returned(S(<<"(no text extracted) ">> \o response_obj.repr))
  ELSE a

\* lines 219-220: except Exception as e
OnException(e) == Returned(S(<<"An error occurred: ">> \o e))

\* ---------------------------------------------------------- inputs
\* All sequences over S of length at most n.
SeqsUpTo(Set, n) == UNION {[1..k -> Set] : k \in 0..n}

HistoryValues == {None, S(<<"Hi">>), I(<<"7">>)}
Roles == {S(<<"user">>), S(<<"assistant">>), S(<<"model">>), S(<<"system">>), None}
Senders == {S(<<"user">>), S(<<"bot">>), None}

Entries ==
  {SeqItem(vs) : vs \in SeqsUpTo(HistoryValues, 2)}
    \cup {SeqItem(<<x, y, S(<<"extra">>)>>) : x, y \in {None, S(<<"Hello!">>)}}
    \cup {SeqItem(<<EmptyStr, EmptyStr>>)}
    \cup {DictItem(<<"user", "assistant">>, <<u, a>>) : u, a \in HistoryValues}
    \cup {DictItem(<<"sender", "message">>, <<r, m>>) : r \in Senders, m \in HistoryValues}
    \cup {DictItem(<<"role", "content">>, <<r, c>>) : r \in Roles, c \in HistoryValues}
    \cup {DictItem(<<"content", "role", "id">>, <<c, r, I(<<"7">>)>>) :
            r \in {S(<<"user">>), S(<<"model">>), S(<<"tool">>)}, c \in {None, S(<<"Hi">>)}}
    \cup {DictItem(<<"role", "content", "user", "assistant">>,
                   <<S(<<"user">>), c, None, S(<<"Hi">>)>>) : c \in {None, S(<<"Hello!">>)}}
    \cup {DictItem(<<"sender", "message", "role", "content">>,
                   <<r, S(<<"Hello!">>), S(<<"user">>), S(<<"Hi">>)>>) :
            r \in {S(<<"user">>), S(<<"bot">>)}}
    \cup {DictItem(<<>>, <<>>)}
    \cup {DictItem(<<"text">>, <<x>>) : x \in {None, S(<<"Hi">>)}}
    \cup {DictItem(<<"a", "b", "c">>, <<x, y, S(<<"Hi">>)>>) : x, y \in {None, S(<<"Hello!">>)}}
    \cup {OtherItem(x) : x \in HistoryValues \cup {EmptyStr}}

Histories ==
  {NoHistory, FalsyHistory, IntHistory}
    \cup {ListHistory(es) : es \in SeqsUpTo(Entries, MaxHist)}

ChatEntries ==
  { SeqItem(<<S(<<"Hi">>), S(<<"Hello!">>)>>),
    SeqItem(<<S(<<"Hi">>), None>>),
    SeqItem(<<None, S(<<"Hello!">>), S(<<"extra">>)>>),
    SeqItem(<<EmptyStr, EmptyStr>>),
    DictItem(<<"role", "content">>, <<S(<<"user">>), S(<<"Hi">>)>>),
    DictItem(<<"role", "content">>, <<S(<<"assistant">>), S(<<"Hello!">>)>>),
    DictItem(<<"role", "content">>, <<S(<<"system">>), S(<<"Hi">>)>>),
    OtherItem(None) }

ChatHistories ==
  {NoHistory, IntHistory}
    \cup {ListHistory(es) : es \in SeqsUpTo(ChatEntries, MaxChatHist)}

Messages == {<<>>, <<"Bye">>}

Summaries == {<<>>, <<"Could not find summary file.">>}
LinkedIns == {<<"Could not find LinkedIn file.">>}

FlatTexts == {None, EmptyStr, S(<<"hello">>), S(<<" ">>), I(<<"7">>)}
PartTexts == {None, EmptyStr, S(<<"a">>), I(<<"3">>)}
PartContents == {None, S(<<"b">>)}
Parts == {Part(d, tx, ct) : d \in BOOLEAN, tx \in PartTexts, ct \in PartContents}
PartLists(n) == {NoList, IntList} \cup {List(ps) : ps \in SeqsUpTo(Parts, n)}

\* The candidates with the text and parts on the candidate itself, and
\* those with them on a nested content object.
Candidates(n) ==
  {Candidate(NoContent, tx, ps, <<"<candidate>">>) : tx \in FlatTexts, ps \in PartLists(n)}
    \cup {Candidate(Content(tx, ps), None, NoList, <<"<candidate>">>) :
            tx \in FlatTexts, ps \in PartLists(n)}
    \cup {Candidate(Content(None, NoList), S(<<"hello">>), List(<<Part(TRUE, S(<<"a">>), None)>>),
                    <<"<candidate>">>)}

OtherCandidate == Candidate(NoContent, S(<<"second">>), NoList, <<"<candidate 2>">>)

Responses(n) ==
  {Response(cs, <<"<response>">>) : cs \in {NoList, IntList, List(<<>>)}}
    \cup {Response(List(<<c>>), <<"<response>">>) : c \in Candidates(n)}
    \cup {Response(List(<<c, OtherCandidate>>), <<"<response>">>) : c \in Candidates(0)}
    \cup {Response(NoList, <<>>), Response(NoList, <<" ">>)}

\* The responses handed to extract_text_from_response on its own, and those
\* the provider returns to chat.
ExtractResponses == Responses(MaxParts)
ChatResponses == Responses(0)

ProviderErrors == {<<"429 quota exceeded">>, <<>>}

\* ------------------------------------------------------ state machine
NoCall == Returned(None)

Init ==
  /\ system_prompt \in {SystemPrompt(s, l) : s \in Summaries, l \in LinkedIns}
  /\ pc = "idle"
  /\ message = <<>>
  /\ history = NoHistory
  /\ normalized = NoCall
  /\ full_history = <<>>
  /\ response = Response(NoList, <<>>)
  /\ answer = NoCall
  /\ result = NoCall

\* normalize_history(h) called on its own (lines 134-187).
CallNormalize ==
  /\ pc = "idle"
  /\ \E h \in Histories :
        /\ history' = h
        /\ normalized' = normalize_history(h)
  /\ pc' = "normalize_done"
  /\ UNCHANGED <<system_prompt, message, full_history, response, answer, result>>

\* extract_text_from_response(r) called on its own (lines 95-130).
CallExtract ==
  /\ pc = "idle"
  /\ \E r \in ExtractResponses :
        /\ response' = r
        /\ answer' = extract_text_from_response(r)
  /\ pc' = "extract_done"
  /\ UNCHANGED <<system_prompt, message, history, normalized, full_history, result>>

\* chat(m, h) up to the provider call (lines 197-210).  normalize_history
\* runs outside the try: what it raises leaves chat.
ChatBuild ==
  /\ pc = "idle"
  /\ \E m \in Messages, h \in ChatHistories :
        /\ message' = m
        /\ history' = h
        /\ normalized' = normalize_history(h)
  /\ IF normalized'.raised
     THEN /\ result' = normalized'
          /\ pc' = "chat_done"
          /\ UNCHANGED full_history
     ELSE /\ full_history' = BuildRequest(system_prompt, normalized'.value, message')
          /\ pc' = "chat_built"
          /\ UNCHANGED result
  /\ UNCHANGED <<system_prompt, response, answer>>

\* line 213: model.generate_content(full_history) returns r.
ProviderReturns ==
  /\ pc = "chat_built"
  /\ \E r \in ChatResponses : response' = r
  /\ pc' = "chat_responded"
  /\ UNCHANGED <<system_prompt, message, history, normalized, full_history, answer, result>>

\* lines 213, 219-220: model.generate_content(full_history) raises e.
ProviderRaises ==
  /\ pc = "chat_built"
  /\ \E e \in ProviderErrors : result' = OnException(e)
  /\ pc' = "chat_failed"
  /\ UNCHANGED <<system_prompt, message, history, normalized, full_history, response, answer>>

\* lines 214-220: extraction and the return of chat.
ChatFinish ==
  /\ pc = "chat_responded"
  /\ answer' = extract_text_from_response(response)
  /\ result' = LET r == AfterResponse(response) IN
               IF r.raised THEN OnException(r.exc) ELSE r
  /\ pc' = "chat_done"
  /\ UNCHANGED <<system_prompt, message, history, normalized, full_history, response>>

\* The caller takes the outcome; the next call starts from the same module
\* state.
Return ==
  /\ pc \in {"normalize_done", "extract_done", "chat_done", "chat_failed"}
  /\ pc' = "idle"
  /\ message' = <<>>
  /\ history' = NoHistory
  /\ normalized' = NoCall
  /\ full_history' = <<>>
  /\ response' = Response(NoList, <<>>)
  /\ answer' = NoCall
  /\ result' = NoCall
  /\ UNCHANGED system_prompt

Next ==
  \/ CallNormalize
  \/ CallExtract
  \/ ChatBuild
  \/ ProviderReturns
  \/ ProviderRaises
  \/ ChatFinish
  \/ Return

Spec == Init /\ [][Next]_vars

\* ============================================================== claims

\* chat has built its request (its call to normalize_history returned).
RequestBuilt ==
  \/ pc \in {"chat_built", "chat_responded", "chat_failed"}
  \/ pc = "chat_done" /\ ~normalized.raised

\* chat has ended, by a return or by an exception that left it.
ChatEnded == pc \in {"chat_done", "chat_failed"}

\* The text of message i of the request.
TextOf(i) == full_history[i].parts[1].text

\* C1: whatever is raised during chat, chat does not raise: it returns a
\* string, which begins with "An error occurred:" when the provider call
\* raised; no exception reaches the caller of chat.
C1_ChatNeverRaises ==
  /\ ChatEnded => ~result.raised /\ result.value.t = "str"
  /\ pc = "chat_failed" =>
       /\ result.value.v # <<>>
       /\ Head(result.value.v) = "An error occurred: "

\* C2: the request chat builds starts with the system prompt as a user
\* message and ends with the new message as a user message, for every
\* prompt, history and message; with an empty history it has exactly 2
\* messages.
C2_FirstAndLast ==
  RequestBuilt =>
    /\ Len(full_history) >= 2
    /\ full_history[1] = Message("user", system_prompt)
    /\ full_history[Len(full_history)] = Message("user", message)
    /\ (history.items = <<>> => Len(full_history) = 2)

C2_Witness ==
  /\ RequestBuilt
  /\ history = ListHistory(<<>>)
  /\ message = <<>>
  /\ full_history = <<Message("user", system_prompt), Message("user", <<>>)>>

\* The number of messages a turn puts in the request, and the number the
\* first n turns put there.
C3_Emits(turn) ==
  (IF turn[1] # <<>> THEN 1 ELSE 0) + (IF turn[2] # <<>> THEN 1 ELSE 0)

RECURSIVE C3_Offset(_, _)
C3_Offset(turns, n) ==
  IF n = 0 THEN 0 ELSE C3_Offset(turns, n - 1) + C3_Emits(turns[n])

\* C3: between the system message and the new message the request holds,
\* for each normalized turn in arrival order, a user message iff user_text
\* is non-empty, then an assistant message (wire role "model") iff
\* assistant_text is non-empty, and nothing else; history [("Hi","Hello!")]
\* with message "Bye" gives user prompt, user Hi, assistant Hello!, user Bye.
C3_HistoryInOrder ==
  RequestBuilt =>
    LET turns == normalized.value
        at(i) == 1 + C3_Offset(turns, i - 1)
    IN /\ Len(full_history) = 2 + C3_Offset(turns, Len(turns))
       /\ \A i \in 1..Len(turns) :
            /\ turns[i][1] # <<>> =>
                 full_history[at(i) + 1] = Message("user", turns[i][1])
            /\ turns[i][2] # <<>> =>
                 full_history[at(i) + C3_Emits(turns[i])] = Message("model", turns[i][2])
       /\ (history = ListHistory(<<SeqItem(<<S(<<"Hi">>), S(<<"Hello!">>)>>)>>)
             /\ message = <<"Bye">>) =>
            full_history = << Message("user", system_prompt),
                              Message("user", <<"Hi">>),
                              Message("model", <<"Hello!">>),
                              Message("user", <<"Bye">>) >>

C3_Witness ==
  /\ RequestBuilt
  /\ history = ListHistory(<<SeqItem(<<S(<<"Hi">>), S(<<"Hello!">>)>>),
                             SeqItem(<<None, S(<<"Hello!">>), S(<<"extra">>)>>)>>)
  /\ message = <<"Bye">>
  /\ Len(full_history) = 5
  /\ full_history[4] = Message("model", <<"Hello!">>)

\* C4: extract_text_from_response never raises; a fault while it reads the
\* response comes back as a bracketed string that holds the exception's
\* description.
C4_ExtractNeverRaises ==
  pc \in {"extract_done", "chat_done"} /\ ~normalized.raised =>
    /\ ~answer.raised
    /\ ExtractBody(response).raised =>
         /\ answer.value.t = "str"
         /\ answer.value.v =
              <<"[Could not extract text from response: ">>
                \o ExtractBody(response).exc \o <<"]">>
         /\ ExtractBody(response).exc # <<>>

C4_Witness ==
  /\ pc = "extract_done"
  /\ response.candidates.k = "list"
  /\ response.candidates.items # <<>>
  /\ response.candidates.items[1].content.k = "obj"
  /\ response.candidates.items[1].content.parts = IntList
  /\ answer = Returned(S(<<"[Could not extract text from response: ",
                           "'int' object is not iterable", "]">>))

\* Every field the extractor reads is absent, a string or a list.
C5_IsText(x) == x.t \in {"none", "str"}
C5_WellTyped(r) ==
  /\ r.candidates.k # "int"
  /\ r.candidates.items # <<>> =>
       LET c == r.candidates.items[1]
           view == IF c.content.k = "obj" THEN c.content ELSE c
       IN /\ C5_IsText(view.text)
          /\ view.parts.k # "int"
          /\ \A i \in 1..Len(view.parts.items) :
               /\ C5_IsText(view.parts.items[i].text)
               /\ C5_IsText(view.parts.items[i].content)

\* The text of a part: its text field, else its content field, else "".
C5_PartText(p) ==
  IF p.text.v # <<>> THEN p.text.v
  ELSE IF p.content.v # <<>> THEN p.content.v
  ELSE <<>>

RECURSIVE C5_Concat(_)
C5_Concat(parts) ==
  IF parts = <<>> THEN <<>> ELSE C5_PartText(Head(parts)) \o C5_Concat(Tail(parts))

C5_Expected(r) ==
  IF r.candidates.items = <<>> THEN r.repr
  ELSE LET c == r.candidates.items[1]
           view == IF c.content.k = "obj" THEN c.content ELSE c
       IN IF view.text.v # <<>> THEN view.text.v
          ELSE IF C5_Concat(view.parts.items) # <<>> THEN C5_Concat(view.parts.items)
          ELSE c.repr

\* C5: extract_text_from_response follows the ordered fallback, first match
\* wins: the string form of the response without candidates; else the flat
\* text of the first candidate's content view; else the concatenation of
\* the parts' texts (text before content); else the string form of the
\* first candidate.  content.text = "hello" gives "hello"; parts
\* [{text: a}, {content: b}] give "ab".
C5_OrderedFallback ==
  pc = "extract_done" /\ C5_WellTyped(response) =>
    /\ answer = Returned(S(C5_Expected(response)))
    /\ (response.candidates.items # <<>>
          /\ response.candidates.items[1].content.k = "obj"
          /\ response.candidates.items[1].content.text = S(<<"hello">>))
         => answer.value = S(<<"hello">>)
    /\ (response.candidates.items # <<>>
          /\ response.candidates.items[1].content.k = "obj"
          /\ response.candidates.items[1].content.text = None
          /\ response.candidates.items[1].content.parts =
               List(<<Part(TRUE, S(<<"a">>), None), Part(TRUE, None, S(<<"b">>))>>))
         => answer.value = S(<<"a", "b">>)

C5_Witness ==
  /\ pc = "extract_done"
  /\ response.candidates.items # <<>>
  /\ response.candidates.items[1].content.k = "obj"
  /\ response.candidates.items[1].content.text = None
  /\ response.candidates.items[1].content.parts =
       List(<<Part(TRUE, S(<<"a">>), None), Part(TRUE, None, S(<<"b">>))>>)
  /\ answer = Returned(S(<<"a", "b">>))

\* C6: normalize_history is total: no input makes it fail; None gives the
\* empty sequence and every other input one turn per element, in order.
C6_Total ==
  pc = "normalize_done" =>
    /\ ~normalized.raised
    /\ history.k = "none" => normalized.value = <<>>
    /\ history.k = "list" =>
         /\ Len(normalized.value) = Len(history.items)
         /\ \A i \in 1..Len(history.items) :
              normalized.value[i] = NormItem(history.items[i])

\* Stringified, null as the empty string.
C7_Stringified(x) == IF x = None THEN <<>> ELSE x.v

\* The value item holds under key.
C7_Value(item, key) ==
  item.vals[CHOOSE i \in 1..Len(item.keys) : item.keys[i] = key]

\* The entry is a mapping that the role/content rule decides.
C7_RoleContentEntry(item) ==
  /\ item.k = "dict"
  /\ "role" \in {item.keys[i] : i \in 1..Len(item.keys)}
  /\ "content" \in {item.keys[i] : i \in 1..Len(item.keys)}
  /\ ~({"user", "assistant"} \subseteq {item.keys[i] : i \in 1..Len(item.keys)})
  /\ ~({"sender", "message"} \subseteq {item.keys[i] : i \in 1..Len(item.keys)})

\* C7: a mapping with the keys role and content that no earlier rule takes
\* gives user_text = stringified content for role "user", assistant_text =
\* stringified content for role "assistant" or "model", and an empty turn
\* for any other role.
C7_RoleContent ==
  pc = "normalize_done" /\ ~normalized.raised =>
    \A i \in 1..Len(history.items) :
      C7_RoleContentEntry(history.items[i]) =>
        LET role == C7_Value(history.items[i], "role")
            content == C7_Stringified(C7_Value(history.items[i], "content"))
        IN normalized.value[i] =
             CASE role = S(<<"user">>) -> <<content, <<>>>>
               [] role \in {S(<<"assistant">>), S(<<"model">>)} -> <<<<>>, content>>
               [] OTHER -> <<<<>>, <<>>>>

C7_Witness ==
  /\ pc = "normalize_done"
  /\ history = ListHistory(<<DictItem(<<"role", "content">>, <<S(<<"system">>), S(<<"Hi">>)>>),
                             DictItem(<<"content", "role", "id">>,
                                      <<S(<<"Hi">>), S(<<"model">>), I(<<"7">>)>>)>>)
  /\ normalized = Returned(<< <<<<>>, <<>>>>, <<<<>>, <<"Hi">>>> >>)

\* The turns of a normalized sequence, handed back as a raw history of
\* pairs of strings.
C8_AsHistory(turns) ==
  ListHistory([i \in 1..Len(turns) |-> SeqItem(<<S(turns[i][1]), S(turns[i][2])>>)])

\* C8: a list or tuple of length >= 2 gives the turn of its stringified
\* first and second elements (null as the empty string), whatever follows
\* them, one turn per pair in order; normalizing a normalized sequence
\* again gives the same sequence.
C8_PairsAndIdempotence ==
  pc = "normalize_done" /\ ~normalized.raised =>
    /\ \A i \in 1..Len(history.items) :
         (history.items[i].k = "seq" /\ Len(history.items[i].vals) >= 2) =>
           normalized.value[i] = << C7_Stringified(history.items[i].vals[1]),
                                    C7_Stringified(history.items[i].vals[2]) >>
    /\ (\A i \in 1..Len(history.items) :
          history.items[i].k = "seq" /\ Len(history.items[i].vals) >= 2)
         => Len(normalized.value) = Len(history.items)
    /\ normalize_history(C8_AsHistory(normalized.value)) = normalized

C8_Witness ==
  /\ pc = "normalize_done"
  /\ history = ListHistory(<<SeqItem(<<None, S(<<"Hello!">>), S(<<"extra">>)>>),
                             SeqItem(<<I(<<"7">>), None>>)>>)
  /\ normalized = Returned(<< <<<<>>, <<"Hello!">>>>, <<<<"7">>, <<>>>> >>)

\* C9: null becomes the empty string under every rule of normalize_history:
\* no turn carries a null marker, neither null nor its string form "None",
\* in either field.
C9_NoNullMarker ==
  pc = "normalize_done" /\ ~normalized.raised =>
    \A i \in 1..Len(normalized.value) :
      /\ normalized.value[i][1] # <<"None">>
      /\ normalized.value[i][2] # <<"None">>

\* C10, as stated: every message of the request chat submits has a
\* non-empty text.
C10_AllTextsNonEmpty ==
  RequestBuilt => \A i \in 1..Len(full_history) : TextOf(i) # <<>>

\* C10, amended: every message of the request but the last has a non-empty
\* text; the last carries the new message as it came, empty when it is.
C10_AllButLastNonEmpty ==
  RequestBuilt =>
    /\ \A i \in 1..(Len(full_history) - 1) : TextOf(i) # <<>>
    /\ TextOf(Len(full_history)) = message

C10_Witness ==
  /\ RequestBuilt
  /\ message = <<>>
  /\ history = ListHistory(<<SeqItem(<<EmptyStr, EmptyStr>>),
                             SeqItem(<<S(<<"Hi">>), None>>)>>)
  /\ Len(full_history) = 3
  /\ TextOf(3) = <<>>

====
